---- MODULE Spec2Model ----
(***************************************************************************)
(* Black-Scholes option pricing page (src/app.py).                         *)
(*                                                                         *)
(* The page is a script that runs top to bottom on every user interaction. *)
(* One action of the model is one such run, triggered by one widget.       *)
(*                                                                         *)
(* Numbers.  Python values are tagged records: None, NaN, and floats.      *)
(* Spot, strike and last price are whole dollars.  The risk-free rate is   *)
(* in basis points.  T is the exact rational <<num, den>>.  Close prices   *)
(* are powers of two, so a log return is a whole multiple of ln 2 and the  *)
(* annualised volatility sigma is kept exactly as its square               *)
(* sq = <<n, d>>, meaning sigma^2 = (n / d) * (ln 2)^2.  A Black-Scholes   *)
(* price is kept as the expression that produced it, together with the     *)
(* IEEE class (nan, finite, +inf, -inf) of d1.                             *)
(***************************************************************************)
EXTENDS Integers, Sequences, FiniteSets, TLC

\* ------------------------------------------------------------------ bounds
MaxHist == 3        \* longest Close series the provider returns
MaxChain == 2       \* most contracts in one option chain
MaxNow == 3         \* the clock runs over 0..MaxNow, in half days

\* -------------------------------------------------------- program constants
TradingDays == 252      \* np.sqrt(252)
DaysPerYear == 365      \* days_to_expiry / 365.0
FloorNum == 1           \* T = 0.0001 = FloorNum / FloorDen
FloorDen == 10000
DefaultRate == 415      \* value=0.0415, in basis points

\* ------------------------------------------------------------ input domains
PriceSet == {2, 4}                  \* close prices (powers of two)
StrikeSet == {2, 3, 5}
RateSet == {0, DefaultRate}
OptionSets == {<<>>, <<1, 2>>}      \* expiration dates, as day numbers
RaiseSteps == {"none", "history_1d", "history_1y", "options"}

SeqsUpTo(S, n) == UNION {[1..k -> S] : k \in 0..n}
Series == SeqsUpTo(PriceSet, MaxHist) \ {<<>>}
Chains == SeqsUpTo(StrikeSet, MaxChain)

\* ----------------------------------------------------------- Python values
None == [py |-> "None"]
NaN == [py |-> "nan"]
Float(x) == [py |-> "float", val |-> x]
Tuple(s) == [py |-> "tuple", items |-> s]
IsNone(x) == x.py = "None"
IsNaN(x) == x.py = "nan"

\* bool(x) of `if current_price:` -- None and 0.0 are falsy, NaN is truthy
Truthy(x) == ~IsNone(x) /\ ~(x.py = "float" /\ "val" \in DOMAIN x /\ x.val = 0)

VARIABLES
    market,          \* what the data provider serves for the ticker
    cache,           \* st.cache_data memo of get_data, per ticker
    session_state,   \* st.session_state['data_fetched']
    risk_free_rate,  \* sidebar number input
    now,             \* datetime.now(), in half days
    current_price, vol, exps,       \* current_price, vol, exps = get_data(...)
    selected_expiry,                \* selectbox value (0 when it returns None)
    calls, puts,                    \* chain.calls, chain.puts as they are after the run
    days_to_expiry, T,
    option_type,                    \* radio value
    df_filtered,
    outcome,         \* how the last run ended: init, no_data, exception, priced
    raised_at,       \* history: the provider step that raised inside get_data
    bs_args, bs_result   \* a direct call of black_scholes and what it gave

vars == <<market, cache, session_state, risk_free_rate, now, current_price, vol,
          exps, selected_expiry, calls, puts, days_to_expiry, T, option_type,
          df_filtered, outcome, raised_at, bs_args, bs_result>>

ticker_input == "NVDA"
Tickers == {ticker_input}

\* ---------------------------------------------------------------- helpers
Log2(p) == CASE p = 1 -> 0 [] p = 2 -> 1 [] p = 4 -> 2 [] p = 8 -> 3

RECURSIVE SumSeq(_)
SumSeq(s) == IF s = <<>> THEN 0 ELSE Head(s) + SumSeq(Tail(s))

\* ------------------------------------------------- volatility (lines 37-39)
\* hist['log_return'] = np.log(hist['Close'] / hist['Close'].shift(1)), in
\* units of ln 2; shift(1) leaves the first row without a predecessor: NaN
log_return(Close) ==
    [t \in 1..Len(Close) |->
        IF t = 1 THEN NaN ELSE Float(Log2(Close[t]) - Log2(Close[t - 1]))]

\* the values pandas keeps (skipna) from a column
DropNaN(col) ==
    LET keep == {t \in 1..Len(col) : ~IsNaN(col[t])}
        RECURSIVE Build(_)
        Build(t) == IF t > Len(col) THEN <<>>
                    ELSE IF t \in keep THEN <<col[t].val>> \o Build(t + 1)
                    ELSE Build(t + 1)
    IN Build(1)

\* Series.std(): sample standard deviation (ddof = 1) of the non-NaN values,
\* NaN when fewer than two remain; kept as its square <<num, den>>
std(col) ==
    LET xs == DropNaN(col)
        m == Len(xs)
        sumsq == SumSeq([i \in 1..m |-> xs[i] * xs[i]])
        sum == SumSeq(xs)
    IN IF m < 2 THEN NaN
       ELSE [py |-> "float", sq |-> <<m * sumsq - sum * sum, m * (m - 1)>>]

\* hist['log_return'].std() * np.sqrt(252)
volatility(Close) ==
    LET s == std(log_return(Close))
    IN IF IsNaN(s) THEN NaN
       ELSE [py |-> "float", sq |-> <<TradingDays * s.sq[1], s.sq[2]>>]

\* ---------------------------------------------- black_scholes (lines 20-27)
\* IEEE class of d1 = (ln(S/K) + (r + sigma^2/2) T) / (sigma sqrt(T)).  With
\* sigma = 0.0 the division is by zero: the sign of ln(S/K) + r T decides
\* between +inf and -inf, and 0/0 is NaN (r >= 0 and r T < |ln(S/K)| on the
\* input domains, so the sign is that of S - K unless S = K).
d1_class(S, K, r, sigma) ==
    IF IsNaN(sigma) THEN "nan"
    ELSE IF sigma.sq[1] > 0 THEN "finite"
    ELSE IF S > K \/ (S = K /\ r > 0) THEN "+inf"
    ELSE IF S = K THEN "nan"
    ELSE "-inf"

\* d2 = d1 - sigma * np.sqrt(T) has the class of d1 (sigma sqrt(T) is finite)
d2_class(d1) == d1

\* def black_scholes(S, K, T, r, sigma, option_type): the price, or the
\* exception the call ends with.  No branch assigns `price` for another
\* option_type, so `return price` raises UnboundLocalError.
black_scholes(S, K, T_, r, sigma, kind) ==
    LET d1 == d1_class(S, K, r, sigma)
        d2 == d2_class(d1)
    IN IF kind = "call" \/ kind = "put"
       THEN [raised |-> "none",
             price |-> IF d1 = "nan" \/ d2 = "nan" THEN NaN
                       ELSE [py |-> "float",
                             expr |-> <<kind, S, K, T_, r, sigma.sq, d1>>]]
       ELSE [raised |-> "UnboundLocalError"]

\* ----------------------------------------------------- get_data (lines 31-45)
get_data_partial(mkt, raise_at) ==
    CASE raise_at = "none" ->
            <<Float(mkt.Close[Len(mkt.Close)]), volatility(mkt.Close), Tuple(mkt.options)>>
      [] raise_at = "history_1d" -> <<None, None, None>>
      [] raise_at = "history_1y" -> <<Float(mkt.Close[Len(mkt.Close)]), None, None>>
      [] raise_at = "options" ->
            <<Float(mkt.Close[Len(mkt.Close)]), volatility(mkt.Close), None>>

\* the body of get_data: any provider call that raises lands in `except`,
\* which returns None, None, None
get_data(mkt, raise_at) ==
    IF raise_at # "none" THEN <<None, None, None>>
    ELSE <<Float(mkt.Close[Len(mkt.Close)]), volatility(mkt.Close), Tuple(mkt.options)>>

\* @st.cache_data: the memo entry of a ticker
NotCached == [hit |-> FALSE]
Cached(v, raise_at) == [hit |-> TRUE, value |-> v, raised |-> raise_at]

\* ------------------------------------------------ the script's steps (53-103)
\* st.sidebar.selectbox("Select Expiration Date", exps): the kept choice when
\* it is still an option, else the first option, None (0) without options
selectbox(options, choice) ==
    IF IsNone(options) \/ options.items = <<>> THEN 0
    ELSE IF \E i \in 1..Len(options.items) : options.items[i] = choice THEN choice
    ELSE options.items[1]

\* stock_obj.option_chain(selected_expiry): fresh calls and puts frames
option_chain(mkt, expiry) ==
    LET frame(side) ==
            [i \in 1..Len(mkt.strikes) |->
                [contractSymbol |-> <<side, expiry, i>>,
                 strike |-> mkt.strikes[i],
                 lastPrice |-> i,
                 impliedVolatility |-> 0,
                 volume |-> 0]]
    IN [calls |-> frame("C"), puts |-> frame("P")]

days_between_rounded_up(expiry, t) == (2 * expiry - t + 1) \div 2

\* (expiry_dt - datetime.now()).days: expiry_dt is midnight of the expiry day
\* and timedelta.days rounds towards minus infinity
days_between(expiry, t) == (2 * expiry - t) \div 2

time_to_maturity_strict(days) ==
    LET T0 == <<days, DaysPerYear>>
    IN IF T0[1] < 0 THEN <<FloorNum, FloorDen>> ELSE T0

\* T = days_to_expiry / 365.0; if T <= 0: T = 0.0001
time_to_maturity(days) ==
    LET T0 == <<days, DaysPerYear>>
    IN IF T0[1] <= 0 THEN <<FloorNum, FloorDen>> ELSE T0

get_moneyness_inclusive(kind, spot, row) ==
    IF kind = "Call"
    THEN (IF spot.val >= row.strike THEN "ITM" ELSE "OTM")
    ELSE (IF spot.val <= row.strike THEN "ITM" ELSE "OTM")

\* def get_moneyness(row), closed over option_type and current_price
get_moneyness(kind, spot, row) ==
    IF kind = "Call"
    THEN (IF spot.val > row.strike THEN "ITM" ELSE "OTM")
    ELSE (IF spot.val < row.strike THEN "ITM" ELSE "OTM")

\* option_type.lower()
lower(kind) == IF kind = "Call" THEN "call" ELSE IF kind = "Put" THEN "put" ELSE kind

\* df[name] = values: the column is written into the frame df names
SetColumn(df, name, values) ==
    [i \in 1..Len(df) |-> (name :> values[i]) @@ df[i]]

\* df['lastPrice'] - df['BS_Price']
Minus(a, b) ==
    IF IsNaN(b) THEN NaN ELSE [py |-> "float", expr |-> <<"sub", a, b.expr>>]

\* lines 96-100: the three column assignments on df
Enrich(df, kind, spot, T_, r, sigma) ==
    LET df1 == SetColumn(df, "Moneyness",
                   [i \in 1..Len(df) |-> get_moneyness(kind, spot, df[i])])
        df2 == SetColumn(df1, "BS_Price",
                   [i \in 1..Len(df) |->
                       black_scholes(spot.val, df1[i].strike, T_, r, sigma,
                                     lower(kind)).price])
    IN SetColumn(df2, "Diff",
           [i \in 1..Len(df) |-> Minus(df2[i].lastPrice, df2[i].BS_Price)])

near_the_money_inclusive(spot, df) ==
    LET mask == [i \in 1..Len(df) |->
                    2 * df[i].strike >= spot.val /\ 2 * df[i].strike <= 3 * spot.val]
        RECURSIVE Take(_)
        Take(i) == IF i > Len(df) THEN <<>>
                   ELSE IF mask[i] THEN <<df[i]>> \o Take(i + 1)
                   ELSE Take(i + 1)
    IN Take(1)

\* df[(df['strike'] > current_price * 0.5) & (df['strike'] < current_price * 1.5)]
\* (both sides doubled): the rows the boolean mask keeps, as a new frame
near_the_money(spot, df) ==
    LET mask == [i \in 1..Len(df) |->
                    2 * df[i].strike > spot.val /\ 2 * df[i].strike < 3 * spot.val]
        RECURSIVE Take(_)
        Take(i) == IF i > Len(df) THEN <<>>
                   ELSE IF mask[i] THEN <<df[i]>> \o Take(i + 1)
                   ELSE Take(i + 1)
    IN Take(1)

\* ------------------------------------------------------------ one script run
Unset == <<>>
UnsetT == <<0, 1>>
DefaultKind == "Call"

\* Lines 53-155 with the widgets at (rate, choice, kind) and the clock at t.
\* raise_at is the provider step that raises if get_data has to run;
\* chain_raises says whether option_chain raises (line 69).
Run(rate, choice, kind, t, raise_at, chain_raises) ==
    LET entry == IF cache[ticker_input].hit THEN cache[ticker_input]
                 ELSE Cached(get_data(market, raise_at), raise_at)
        price == entry.value[1]
        sigma == entry.value[2]
        options == entry.value[3]
        expiry == selectbox(options, choice)
        chain == option_chain(market, expiry)
        days == days_between(expiry, t)
        T1 == time_to_maturity(days)
        df == Enrich(IF kind = "Call" THEN chain.calls ELSE chain.puts,
                     kind, price, T1, rate, sigma)
    IN /\ cache' = [cache EXCEPT ![ticker_input] = entry]
       /\ raised_at' = entry.raised
       /\ risk_free_rate' = rate
       /\ now' = t
       /\ current_price' = price
       /\ vol' = sigma
       /\ exps' = options
       /\ IF ~Truthy(price)
          THEN \* else: st.error("Invalid Ticker or Data Unavailable...")
               /\ outcome' = "no_data"
               /\ selected_expiry' = 0
               /\ option_type' = DefaultKind
               /\ calls' = Unset /\ puts' = Unset /\ df_filtered' = Unset
               /\ days_to_expiry' = 0 /\ T' = UnsetT
          ELSE IF expiry = 0 \/ chain_raises
          THEN \* option_chain or strptime raised: the run stops at line 69/74
               /\ outcome' = "exception"
               /\ selected_expiry' = expiry
               /\ option_type' = DefaultKind
               /\ calls' = Unset /\ puts' = Unset /\ df_filtered' = Unset
               /\ days_to_expiry' = 0 /\ T' = UnsetT
          ELSE /\ outcome' = "priced"
               /\ selected_expiry' = expiry
               /\ option_type' = kind
               /\ days_to_expiry' = days
               /\ T' = T1
               \* df is calls or puts itself, not a copy
               /\ calls' = IF kind = "Call" THEN df ELSE chain.calls
               /\ puts' = IF kind = "Call" THEN chain.puts ELSE df
               /\ df_filtered' = near_the_money(price, df)
       /\ UNCHANGED <<market, bs_args, bs_result>>

\* the provider is asked only when the memo has no entry for the ticker
FetchSteps == IF cache[ticker_input].hit THEN {cache[ticker_input].raised} ELSE RaiseSteps

\* the first run, with every widget at its default
PageLoad ==
    /\ outcome = "init"
    /\ \E t \in now..MaxNow, raise_at \in FetchSteps, chain_raises \in BOOLEAN :
           Run(risk_free_rate, selected_expiry, option_type, t, raise_at, chain_raises)
    /\ UNCHANGED session_state

\* if st.sidebar.button("Fetch Data"): st.session_state['data_fetched'] = True
ClickFetchData ==
    /\ outcome # "init"
    /\ session_state' = TRUE
    /\ \E t \in now..MaxNow, raise_at \in FetchSteps, chain_raises \in BOOLEAN :
           Run(risk_free_rate, selected_expiry, option_type, t, raise_at, chain_raises)

\* the user edits the risk-free rate
ChangeRate ==
    /\ outcome # "init"
    /\ \E r \in RateSet \ {risk_free_rate}, t \in now..MaxNow,
          raise_at \in FetchSteps, chain_raises \in BOOLEAN :
           Run(r, selected_expiry, option_type, t, raise_at, chain_raises)
    /\ UNCHANGED session_state

\* the user picks another expiration date (the selectbox was drawn)
SelectExpiry ==
    /\ outcome \in {"priced", "exception"}
    /\ \E i \in 1..Len(exps.items), t \in now..MaxNow,
          raise_at \in FetchSteps, chain_raises \in BOOLEAN :
           /\ exps.items[i] # selected_expiry
           /\ Run(risk_free_rate, exps.items[i], option_type, t, raise_at, chain_raises)
    /\ UNCHANGED session_state

\* the user flips the Call / Put radio (the radio was drawn)
SelectOptionType ==
    /\ outcome = "priced"
    /\ \E k \in {"Call", "Put"} \ {option_type}, t \in now..MaxNow,
          raise_at \in FetchSteps, chain_raises \in BOOLEAN :
           Run(risk_free_rate, selected_expiry, k, t, raise_at, chain_raises)
    /\ UNCHANGED session_state

Markets == [Close : Series, options : OptionSets, strikes : Chains]

\* the session before the first run
Booted ==
    /\ cache = [tk \in Tickers |-> NotCached]
    /\ session_state = FALSE
    /\ risk_free_rate = DefaultRate
    /\ now = 0
    /\ current_price = None /\ vol = None /\ exps = None
    /\ selected_expiry = 0
    /\ calls = Unset /\ puts = Unset /\ df_filtered = Unset
    /\ days_to_expiry = 0 /\ T = UnsetT
    /\ option_type = DefaultKind
    /\ outcome = "init"
    /\ raised_at = "none"
    /\ bs_args = <<>>
    /\ bs_result = [raised |-> "not called"]

Init == market \in Markets /\ Booted

Next == PageLoad \/ ClickFetchData \/ ChangeRate \/ SelectExpiry \/ SelectOptionType

Spec == Init /\ [][Next]_vars

\* --------------------------------------- black_scholes called on its own
KindSet == {"call", "put", "Call", "straddle"}
Sigmas == {volatility(c) : c \in Series}

CallBlackScholes ==
    /\ \E S \in PriceSet, K \in StrikeSet, days \in -1..MaxNow, r \in RateSet,
          sigma \in Sigmas, kind \in KindSet :
           /\ bs_args' = [S |-> S, K |-> K, T |-> time_to_maturity(days), r |-> r,
                          sigma |-> sigma, option_type |-> kind]
           /\ bs_result' = black_scholes(S, K, time_to_maturity(days), r, sigma, kind)
    /\ UNCHANGED <<market, cache, session_state, risk_free_rate, now, current_price,
                   vol, exps, selected_expiry, calls, puts, days_to_expiry, T,
                   option_type, df_filtered, outcome, raised_at>>

InitBS == market = [Close |-> <<2>>, options |-> <<>>, strikes |-> <<>>] /\ Booted

NextBS == CallBlackScholes

SpecBS == InitBS /\ [][NextBS]_vars

\* ================================================================== claims
\* the frame the run priced: df is calls for "Call" and puts for "Put"
SelectedFrame == IF option_type = "Call" THEN calls ELSE puts
Spot == current_price.val

\* C1: every priced row is labelled ITM exactly when spot > strike (call) or
\* spot < strike (put), and OTM otherwise; spot = strike is OTM for both.
C1_MoneynessLabels ==
    outcome = "priced" =>
        \A i \in 1..Len(SelectedFrame) :
            LET row == SelectedFrame[i]
                itm == \/ option_type = "Call" /\ Spot > row.strike
                       \/ option_type = "Put" /\ Spot < row.strike
            IN /\ row.Moneyness \in {"ITM", "OTM"}
               /\ row.Moneyness = "ITM" <=> itm
               /\ Spot = row.strike => row.Moneyness = "OTM"

\* C1 witness: a put at the money was labelled OTM, next to an ITM row
C1_Witness ==
    /\ outcome = "priced" /\ option_type = "Put"
    /\ \E i \in 1..Len(puts) : puts[i].strike = Spot /\ puts[i].Moneyness = "OTM"
    /\ \E i \in 1..Len(puts) : puts[i].Moneyness = "ITM"

\* the positions of the priced frame whose strike is strictly inside the band
InBand == {i \in 1..Len(SelectedFrame) :
              /\ 2 * SelectedFrame[i].strike > Spot
              /\ 2 * SelectedFrame[i].strike < 3 * Spot}

\* C2: df_filtered is the priced frame's rows with 0.5 spot < strike < 1.5 spot,
\* each once and in input order: its k-th row is the row at the k-th smallest
\* in-band position; rows on either edge of the band are left out.
C2_NearTheMoney ==
    outcome = "priced" =>
        /\ Len(df_filtered) = Cardinality(InBand)
        /\ \A k \in 1..Len(df_filtered) :
               \E i \in InBand :
                   /\ Cardinality({j \in InBand : j < i}) = k - 1
                   /\ df_filtered[k] = SelectedFrame[i]

\* C2 witness: a frame with a row on an edge of the band and a row inside it
C2_Witness ==
    /\ outcome = "priced"
    /\ Len(df_filtered) = 1
    /\ \E i \in 1..Len(SelectedFrame) :
           \/ 2 * SelectedFrame[i].strike = Spot
           \/ 2 * SelectedFrame[i].strike = 3 * Spot

\* strict positivity of spot, sigma (NaN is not positive) and T
Positive(sigma) == ~IsNaN(sigma) /\ ~IsNone(sigma) /\ sigma.sq[1] > 0
SpotPositive == ~IsNone(current_price) /\ Spot > 0
TPositive == T[1] > 0 /\ T[2] > 0

\* C3 (as claimed): a run never prices with a spot, sigma or T that is not
\* strictly positive -- it fails with "invalid market snapshot" instead.
C3_InvalidSnapshotRejected ==
    outcome = "priced" => SpotPositive /\ Positive(vol) /\ TPositive

\* C4: when a provider call inside get_data raises, the run reports "no data"
\* and fetches, prices and filters nothing; and spot, volatility and
\* expirations are all missing or all present, never some of them.
C4_NoDataOnProviderFailure ==
    /\ (outcome # "init" /\ raised_at # "none") =>
           /\ outcome = "no_data"
           /\ calls = Unset /\ puts = Unset /\ df_filtered = Unset
    /\ outcome # "init" =>
           /\ IsNone(current_price) <=> IsNone(vol)
           /\ IsNone(current_price) <=> IsNone(exps)
    /\ outcome = "priced" => raised_at = "none" /\ ~IsNone(exps) /\ ~IsNone(vol)

\* C4 witness: the one-year history call raised and the run said "no data"
C4_Witness == outcome = "no_data" /\ raised_at = "history_1y"

\* C5 (as claimed): with fewer than 2 closes the volatility estimate fails
\* and no volatility value, NaN included, reaches pricing.
C5_ShortHistoryFails ==
    (outcome # "init" /\ raised_at = "none" /\ Len(market.Close) < 2) =>
        /\ IsNone(vol)
        /\ outcome # "priced"

\* C6 (as claimed): black_scholes with a kind other than call or put ends
\* with an "unsupported option kind" error and returns no price.
C6_UnsupportedKindRejected ==
    (bs_args # <<>> /\ bs_args.option_type \notin {"call", "put"}) =>
        bs_result.raised = "UnsupportedOptionKind"

\* C7 (as claimed): after a run the provider's calls and puts frames hold
\* exactly the fields and values option_chain returned.
C7_InputFramesUntouched ==
    outcome = "priced" =>
        /\ calls = option_chain(market, selected_expiry).calls
        /\ puts = option_chain(market, selected_expiry).puts

\* whole days from the clock to midnight of the selected expiry
DaysLeft == (2 * selected_expiry - now) \div 2

\* C8: T is strictly positive: days/365 when the days to expiry are positive,
\* the floor 0.0001 when they are zero or negative; and it is the T every
\* priced row was valued with.
C8_TimeToExpiryPositive ==
    outcome = "priced" =>
        /\ TPositive
        /\ days_to_expiry = DaysLeft
        /\ days_to_expiry > 0 => T = <<days_to_expiry, DaysPerYear>>
        /\ days_to_expiry <= 0 => T = <<FloorNum, FloorDen>>
        /\ \A i \in 1..Len(SelectedFrame) :
               \/ IsNaN(SelectedFrame[i].BS_Price)
               \/ SelectedFrame[i].BS_Price.expr[4] = T

\* C8 witness: a run on the expiry day itself (zero days left) used the floor
\* on a row that got a finite price
C8_Witness ==
    /\ outcome = "priced" /\ days_to_expiry = 0 /\ T = <<FloorNum, FloorDen>>
    /\ \E i \in 1..Len(SelectedFrame) : ~IsNaN(SelectedFrame[i].BS_Price)

\* two consecutive priced runs over the same explicit inputs (the provider's
\* data is the same throughout: market never changes)
SameInputs ==
    /\ outcome = "priced" /\ outcome' = "priced"
    /\ current_price' = current_price /\ vol' = vol /\ exps' = exps
    /\ risk_free_rate' = risk_free_rate
    /\ selected_expiry' = selected_expiry
    /\ option_type' = option_type
SameOutputs ==
    /\ calls' = calls /\ puts' = puts /\ df_filtered' = df_filtered

====
